---- MODULE Spec2Model ----
(***************************************************************************)
(* A model of the sysprop schema tool.                                     *)
(*                                                                         *)
(*   - Common.cpp: the schema validator (ValidateProps / ValidateProp),    *)
(*     the default-name resolver and ParseProps' normalisation;            *)
(*   - the generated C++ accessors (the expected generator output of the   *)
(*     generator test): DoParse<T>, DoParseList, FormatValue, GetProp and  *)
(*     the per-property getters and setters over the property store.       *)
(*                                                                         *)
(* C++ strings are TLA+ strings; a character is a string of length one.    *)
(***************************************************************************)
EXTENDS Integers, Sequences, FiniteSets, TLC

VARIABLES
    \* the schema tool (Common.cpp)
    props,       \* the sysprop::Properties message: the argument of
                 \* ValidateProps, which is the local `ret` of ParseProps
    pc,          \* position inside ValidateProps, then inside ParseProps
    i,           \* loop index of the running loop (1-based)
    prop_names,  \* the unordered_set of sanitized names of ValidateProps
    result,      \* the Result<void> of ValidateProps, once it has returned
    input,       \* history: the message as TextFormat::ParseFromString left it
    output,      \* the Result<sysprop::Properties> of ParseProps, once returned
    \* a process that uses the generated accessors
    store,       \* the property store: key -> optional raw string
    errno,       \* the calling thread's errno
    call,        \* the accessor call that returned last; ok: a setter's result
    last_set,    \* history: per accessor, the value of its last successful set
    got,         \* per accessor, what its getter returned if it was the last call
    nsets,       \* the number of setter calls made
    \* one call of TryParse<T> on a raw string, then FormatValue on its result
    raw,         \* the input: the type T, the raw string, errno at entry
    parsed,      \* the std::optional<T> TryParse returned
    formatted,   \* the string FormatValue returned for the parsed value
    ppc          \* "start", "parsed" or "formatted"

gvars == <<store, errno, call, last_set, got, nsets>>
pvars == <<raw, parsed, formatted, ppc>>
vvars == <<props, pc, i, prop_names, result, input, output>>
vars  == <<vvars, gvars, pvars>>

----------------------------------------------------------------------------
(* Characters and strings *)

CharAt(s, k) == SubSeq(s, k, k)

Lower == "abcdefghijklmnopqrstuvwxyz"
Upper == "ABCDEFGHIJKLMNOPQRSTUVWXYZ"
Digit == "0123456789"

IndexIn(ch, str) ==
    IF \E k \in 1..Len(str) : CharAt(str, k) = ch
    THEN CHOOSE k \in 1..Len(str) : CharAt(str, k) = ch
    ELSE 0

isdigit(ch) == IndexIn(ch, Digit) # 0
isalpha(ch) == IndexIn(ch, Lower) # 0 \/ IndexIn(ch, Upper) # 0
isalnum(ch) == isalpha(ch) \/ isdigit(ch)
toupper(ch) == IF IndexIn(ch, Lower) # 0 THEN CharAt(Upper, IndexIn(ch, Lower)) ELSE ch

RECURSIVE ToUpper(_)
ToUpper(str) ==
    IF str = "" THEN "" ELSE toupper(CharAt(str, 1)) \o ToUpper(Tail(str))

StartsWith(s, prefix) ==
    Len(prefix) <= Len(s) /\ SubSeq(s, 1, Len(prefix)) = prefix

(* android::base::Split: the pieces of s between occurrences of the one-   *)
(* character delimiter; always at least one piece, empty pieces are kept.  *)
RECURSIVE SplitFrom(_, _, _)
SplitFrom(s, delim, cur) ==
    IF s = "" THEN <<cur>>
    ELSE IF CharAt(s, 1) = delim
         THEN <<cur>> \o SplitFrom(Tail(s), delim, "")
         ELSE SplitFrom(Tail(s), delim, cur \o CharAt(s, 1))

Split(s, delim) == SplitFrom(s, delim, "")

----------------------------------------------------------------------------
(* std::regex, for the constructs the two namespace patterns use *)

Lit(s)     == [op |-> "lit", s |-> s]
Alt(args)  == [op |-> "alt", args |-> args]
Cat(args)  == [op |-> "cat", args |-> args]
Opt(arg)   == [op |-> "opt", args |-> <<arg>>]
AnyPlus    == [op |-> "anyplus"]

LineTerminator == "\n"

(* Ends(re, s, k): the positions just after a match of re that starts at   *)
(* position k of s.                                                        *)
RECURSIVE Ends(_, _, _)
RECURSIVE CatEnds(_, _, _, _)
CatEnds(args, n, s, from) ==
    IF n > Len(args) THEN from
    ELSE CatEnds(args, n + 1, s, UNION {Ends(args[n], s, k) : k \in from})

Ends(re, s, k) ==
    CASE re.op = "lit" ->
           IF k + Len(re.s) - 1 <= Len(s) /\ SubSeq(s, k, k + Len(re.s) - 1) = re.s
           THEN {k + Len(re.s)} ELSE {}
      [] re.op = "anyplus" ->
           {j \in (k + 1)..(Len(s) + 1) :
               \A m \in k..(j - 1) : CharAt(s, m) # LineTerminator}
      [] re.op = "opt" -> {k} \cup Ends(re.args[1], s, k)
      [] re.op = "alt" -> UNION {Ends(re.args[n], s, k) : n \in 1..Len(re.args)}
      [] re.op = "cat" -> CatEnds(re.args, 1, s, {k})

regex_match(s, re) == (Len(s) + 1) \in Ends(re, s, 1)

NamespacePrefix == Opt(Alt(<<Lit("init.svc."), Lit("ro."), Lit("persist.")>>))

vendor_regex ==
    Alt(<<Cat(<<NamespacePrefix, Lit("vendor."), AnyPlus>>),
          Cat(<<Lit("ro.hardware."), AnyPlus>>)>>)

odm_regex ==
    Alt(<<Cat(<<NamespacePrefix, Lit("odm."), AnyPlus>>),
          Cat(<<Lit("ro.hardware."), AnyPlus>>)>>)

----------------------------------------------------------------------------
(* Common.cpp: name rules *)

IsCorrectIdentifier(name) ==
    /\ name # ""
    /\ isalpha(CharAt(name, 1)) \/ CharAt(name, 1) = "_"
    /\ \A k \in 2..Len(name) : isalnum(CharAt(name, k)) \/ CharAt(name, k) = "_"

allowed == {"_", "-", "."}

IsCorrectPropertyOrApiName(name) ==
    /\ name # ""
    /\ \A k \in 1..Len(name) : isalnum(CharAt(name, k)) \/ CharAt(name, k) \in allowed

RECURSIVE regex_replace(_)
regex_replace(name) ==
    IF name = "" THEN ""
    ELSE (IF CharAt(name, 1) \in {"-", "."} THEN "_" ELSE CharAt(name, 1))
         \o regex_replace(Tail(name))

(* mutant: the '_' prefix of a leading digit is forgotten *)
ApiNameToIdentifier_NoDigitPrefix(name) == regex_replace(name)

ApiNameToIdentifier(name) ==
    (IF name # "" /\ isdigit(CharAt(name, 1)) THEN "_" ELSE "") \o regex_replace(name)

GenerateDefaultPropName_NoNamespace(ps, prop) ==
    (IF prop.access # "ReadWrite" THEN "ro." ELSE "") \o prop.api_name

GenerateDefaultPropName(ps, prop) ==
    (IF prop.access # "ReadWrite" THEN "ro." ELSE "")
    \o (CASE ps.owner = "Vendor" -> "vendor."
          [] ps.owner = "Odm" -> "odm."
          [] OTHER -> "")
    \o prop.api_name

IsListProp(prop) ==
    prop.type \in {"BooleanList", "IntegerList", "LongList", "DoubleList",
                   "StringList", "EnumList"}

----------------------------------------------------------------------------
(* Common.cpp: ValidateProp *)

Ok == [kind |-> "OK", arg |-> ""]
Errorf(kind, arg) == [kind |-> kind, arg |-> arg]

(* mutant: duplicates are compared without ToUpper *)
EnumCheck_CaseSensitive(prop) ==
    LET names == Split(prop.enum_values, "|")
        bad   == {k \in 1..Len(names) : ~IsCorrectIdentifier(names[k])}
        dup   == {k \in 1..Len(names) : \E j \in 1..(k - 1) : names[j] = names[k]}
        First(S) == CHOOSE k \in S : \A m \in S : k <= m
    IN  IF Len(names) = 0 THEN Errorf("Enum values are empty", prop.api_name)
        ELSE IF bad # {} THEN Errorf("Invalid enum value", names[First(bad)])
        ELSE IF dup # {} THEN Errorf("Duplicated enum value", names[First(dup)])
        ELSE Ok

(* lines 103-124: the enum_values check of an Enum or EnumList property *)
EnumCheck(prop) ==
    LET names == Split(prop.enum_values, "|")
        bad   == {k \in 1..Len(names) : ~IsCorrectIdentifier(names[k])}
        dup   == {k \in 1..Len(names) :
                     \E j \in 1..(k - 1) : ToUpper(names[j]) = ToUpper(names[k])}
        First(S) == CHOOSE k \in S : \A m \in S : k <= m
    IN  IF Len(names) = 0 THEN Errorf("Enum values are empty", prop.api_name)
        ELSE IF bad # {} THEN Errorf("Invalid enum value", names[First(bad)])
        ELSE IF dup # {} THEN Errorf("Duplicated enum value", names[First(dup)])
        ELSE Ok

(* mutant: a Platform property is only kept out of the vendor namespace *)
OwnerCheck_PlatformVendorOnly(owner, prop_name) ==
    CASE owner = "Platform" ->
           IF regex_match(prop_name, vendor_regex)
           THEN Errorf("owned by platform cannot have vendor. or odm. namespace", prop_name)
           ELSE Ok
      [] owner = "Vendor" ->
           IF ~regex_match(prop_name, vendor_regex)
           THEN Errorf("owned by vendor should have vendor. namespace", prop_name)
           ELSE Ok
      [] owner = "Odm" ->
           IF ~regex_match(prop_name, odm_regex)
           THEN Errorf("owned by odm should have odm. namespace", prop_name)
           ELSE Ok
      [] OTHER -> Ok

(* lines 138-163: the owner switch over the two namespace patterns *)
OwnerCheck(owner, prop_name) ==
    CASE owner = "Platform" ->
           IF regex_match(prop_name, vendor_regex) \/ regex_match(prop_name, odm_regex)
           THEN Errorf("owned by platform cannot have vendor. or odm. namespace", prop_name)
           ELSE Ok
      [] owner = "Vendor" ->
           IF ~regex_match(prop_name, vendor_regex)
           THEN Errorf("owned by vendor should have vendor. namespace", prop_name)
           ELSE Ok
      [] owner = "Odm" ->
           IF ~regex_match(prop_name, odm_regex)
           THEN Errorf("owned by odm should have odm. namespace", prop_name)
           ELSE Ok
      [] OTHER -> Ok

(* mutant: the commented-out check of lines 178-181 is enabled *)
AccessCheck_Symmetric(access, prop_name) ==
    CASE access = "ReadWrite" ->
           IF StartsWith(prop_name, "ro.")
           THEN Errorf("is ReadWrite and also have prefix ro.", prop_name)
           ELSE Ok
      [] OTHER ->
           IF ~StartsWith(prop_name, "ro.")
           THEN Errorf("is ReadWrite and also have prefix ro.", prop_name)
           ELSE Ok

(* lines 165-184: the access switch; the non-ReadWrite branch is empty *)
AccessCheck(access, prop_name) ==
    CASE access = "ReadWrite" ->
           IF StartsWith(prop_name, "ro.")
           THEN Errorf("is ReadWrite and also have prefix ro.", prop_name)
           ELSE Ok
      [] OTHER -> Ok

(* lines 186-190 *)
IntegerAsBoolCheck(prop, prop_name) ==
    IF prop.integer_as_bool /\ ~(prop.type = "Boolean" \/ prop.type = "BooleanList")
    THEN Errorf("has integer_as_bool: true, but not a boolean", prop_name)
    ELSE Ok

(* lines 126-127: the explicit prop_name, or the default when it is empty *)
EffectiveName(ps, prop) ==
    IF prop.prop_name = "" THEN GenerateDefaultPropName(ps, prop) ELSE prop.prop_name

(* mutant: the access switch runs before the owner switch *)
ValidateProp_AccessFirst(ps, prop) ==
    LET prop_name == EffectiveName(ps, prop)
        isEnum    == prop.type = "Enum" \/ prop.type = "EnumList"
    IN  IF ~IsCorrectPropertyOrApiName(prop.api_name)
        THEN Errorf("Invalid API name", prop.api_name)
        ELSE IF isEnum /\ EnumCheck(prop) # Ok THEN EnumCheck(prop)
        ELSE IF ~IsCorrectPropertyOrApiName(prop_name)
        THEN Errorf("Invalid prop name", prop.prop_name)
        ELSE IF AccessCheck(prop.access, prop_name) # Ok
        THEN AccessCheck(prop.access, prop_name)
        ELSE IF OwnerCheck(ps.owner, prop_name) # Ok THEN OwnerCheck(ps.owner, prop_name)
        ELSE IntegerAsBoolCheck(prop, prop_name)

ValidateProp(ps, prop) ==
    LET prop_name == EffectiveName(ps, prop)
        isEnum    == prop.type = "Enum" \/ prop.type = "EnumList"
    IN  IF ~IsCorrectPropertyOrApiName(prop.api_name)
        THEN Errorf("Invalid API name", prop.api_name)
        ELSE IF isEnum /\ EnumCheck(prop) # Ok THEN EnumCheck(prop)
        ELSE IF ~IsCorrectPropertyOrApiName(prop_name)
        THEN Errorf("Invalid prop name", prop.prop_name)
        ELSE IF OwnerCheck(ps.owner, prop_name) # Ok THEN OwnerCheck(ps.owner, prop_name)
        ELSE IF AccessCheck(prop.access, prop_name) # Ok
        THEN AccessCheck(prop.access, prop_name)
        ELSE IntegerAsBoolCheck(prop, prop_name)

----------------------------------------------------------------------------
(* Common.cpp: ValidateProps, one action per check and per loop iteration *)

prop_size == Len(props.prop)

Return(r) ==
    /\ result' = r
    /\ pc' = "returned"

(* lines 196-199 *)
CheckModuleSize ==
    /\ pc = "module_size"
    /\ IF Len(Split(props.module, ".")) <= 1
       THEN Return(Errorf("Invalid module name", props.module))
       ELSE pc' = "module_names" /\ UNCHANGED result
    /\ UNCHANGED <<props, i, prop_names, input, output, gvars, pvars>>

(* lines 201-205 *)
CheckModuleNames ==
    /\ pc = "module_names"
    /\ LET names == Split(props.module, ".")
           bad   == {k \in 1..Len(names) : ~IsCorrectIdentifier(names[k])}
       IN  IF bad # {}
           THEN Return(Errorf("Invalid name in module",
                              names[CHOOSE k \in bad : \A m \in bad : k <= m]))
           ELSE pc' = "prop_size" /\ UNCHANGED result
    /\ UNCHANGED <<props, i, prop_names, input, output, gvars, pvars>>

(* lines 207-209 *)
CheckPropSize ==
    /\ pc = "prop_size"
    /\ IF prop_size = 0
       THEN Return(Errorf("There is no defined property", "")) /\ UNCHANGED i
       ELSE pc' = "validate" /\ i' = 1 /\ UNCHANGED result
    /\ UNCHANGED <<props, prop_names, input, output, gvars, pvars>>

(* lines 211-214: one iteration of the per-property loop *)
ValidateLoop ==
    /\ pc = "validate"
    /\ IF i <= prop_size
       THEN LET res == ValidateProp(props, props.prop[i])
            IN  IF res # Ok
                THEN Return(res) /\ UNCHANGED i
                ELSE i' = i + 1 /\ UNCHANGED <<pc, result>>
       ELSE pc' = "unique" /\ i' = 1 /\ UNCHANGED result
    /\ UNCHANGED <<props, prop_names, input, output, gvars, pvars>>

(* lines 216-227: one iteration of the uniqueness loop *)
UniqueLoop ==
    /\ pc = "unique"
    /\ IF i <= prop_size
       THEN LET id == ApiNameToIdentifier(props.prop[i].api_name)
            IN  IF id \in prop_names
                THEN /\ Return(Errorf("Duplicated API name", props.prop[i].api_name))
                     /\ UNCHANGED <<i, prop_names>>
                ELSE /\ prop_names' = prop_names \cup {id}
                     /\ i' = i + 1
                     /\ UNCHANGED <<pc, result>>
       ELSE Return(Ok) /\ UNCHANGED <<i, prop_names>>
    /\ UNCHANGED <<props, input, output, gvars, pvars>>

----------------------------------------------------------------------------
(* The schemas the validator is run on *)

MaxProps == 2

Owners   == {"Platform", "Vendor", "Odm"}
Accesses == {"Readonly", "Writeonce", "ReadWrite"}
Scopes   == {"Public", "System", "Internal"}
Types    == {"Boolean", "Integer", "Long", "Double", "String", "Enum",
             "BooleanList", "IntegerList", "LongList", "DoubleList",
             "StringList", "EnumList"}

Property(api, name, type, enums, access, scope, iab) ==
    [api_name |-> api, prop_name |-> name, type |-> type, enum_values |-> enums,
     access |-> access, scope |-> scope, integer_as_bool |-> iab]

ApiNames  == {"foo", "test-x", "1a", "a b", "", "vendor.x"}
PropNames == {"", "foo", "ro.foo", "vendor.foo", "ro.vendor.x", "init.svc.odm.x",
              "odm.foo", "ro.hardware.x", "vendor.", "xvendor.foo", "a/b",
              "persist.vendor.y"}
EnumValues == {"", "a|b", "a|A", "a|1b", "enu|mva|lue"}

(* enum_values vary for the enum types; other types ignore the field *)
TypeAndEnums ==
    ({"Enum", "EnumList"} \X EnumValues)
    \cup ((Types \ {"Enum", "EnumList"}) \X {""})
    \cup {<<"Integer", "a|A">>}

(* every combination of the fields ValidateProp reads, one property *)
SingleProps ==
    {Property(a, n, te[1], te[2], acc, "Public", iab) :
        a \in ApiNames, n \in PropNames, te \in TypeAndEnums,
        acc \in Accesses, iab \in BOOLEAN}

(* properties for the schemas of several properties *)
ListedProps ==
    { Property("test-x", "", "Integer", "", "Readonly", "Public", FALSE),
      Property("test.x", "", "StringList", "", "ReadWrite", "System", FALSE),
      Property("1a", "", "Boolean", "", "Writeonce", "Internal", TRUE),
      Property("_1a", "vendor.one", "Long", "", "ReadWrite", "System", FALSE),
      Property("foo", "ro.foo", "Double", "", "ReadWrite", "Public", FALSE),
      Property("el", "", "EnumList", "enu|mva|lue", "ReadWrite", "Internal", FALSE),
      Property("en", "", "Enum", "a|A", "Readonly", "Public", FALSE),
      Property("b", "", "Integer", "", "ReadWrite", "Public", TRUE) }

Modules == {"a.b", "a", "", "a.1b", "a..b", "android.os.PlatformProperties"}

RECURSIVE SeqsUpTo(_, _)
SeqsUpTo(S, n) ==
    IF n = 0 THEN {<<>>}
    ELSE SeqsUpTo(S, n - 1)
         \cup {Append(q, x) : q \in {t \in SeqsUpTo(S, n - 1) : Len(t) = n - 1}, x \in S}

Schemas ==
    {[module |-> "a.b", owner |-> o, prop |-> <<p>>] : o \in Owners, p \in SingleProps}
    \cup {[module |-> m, owner |-> o, prop |-> ps] :
             m \in Modules, o \in Owners, ps \in SeqsUpTo(ListedProps, MaxProps)}

NoResult == [kind |-> "pending", arg |-> ""]

----------------------------------------------------------------------------
(* Common.cpp: ParseProps, from the return of ValidateProps (line 263) on; *)
(* the file has been read and parsed into the message (lines 255-261)      *)

NoSchema == [module |-> "", owner |-> "Platform", prop |-> <<>>]
NoOutput == [state |-> "pending", error |-> NoResult, value |-> NoSchema]

(* lines 269-277: the body of the loop, on one property of the message *)
NormalizeProp_AlwaysDefault(ps, prop) ==
    [prop EXCEPT !.prop_name = GenerateDefaultPropName(ps, prop),
                 !.scope     = IF @ = "System" THEN "Public" ELSE @]

NormalizeProp(ps, prop) ==
    [prop EXCEPT !.prop_name = IF @ = "" THEN GenerateDefaultPropName(ps, prop) ELSE @,
                 !.scope     = IF @ = "System" THEN "Public" ELSE @]

(* lines 263-265: the result of ValidateProps *)
CheckValidateProps ==
    /\ pc = "returned"
    /\ IF result # Ok
       THEN /\ output' = [state |-> "error", error |-> result, value |-> NoSchema]
            /\ pc' = "failed"
            /\ UNCHANGED i
       ELSE /\ pc' = "normalize"
            /\ i' = 1
            /\ UNCHANGED output
    /\ UNCHANGED <<props, prop_names, result, input, gvars, pvars>>

(* lines 267-280: one iteration of the loop, or the return of the message *)
NormalizeLoop ==
    /\ pc = "normalize"
    /\ IF i <= prop_size
       THEN /\ props' = [props EXCEPT !.prop[i] = NormalizeProp(props, @)]
            /\ i' = i + 1
            /\ UNCHANGED <<pc, output>>
       ELSE /\ output' = [state |-> "value", error |-> Ok, value |-> props]
            /\ pc' = "done"
            /\ UNCHANGED <<props, i>>
    /\ UNCHANGED <<prop_names, result, input, gvars, pvars>>


----------------------------------------------------------------------------
(* What a state of ValidateProps tells about the properties *)

ModuleKinds == {"Invalid module name", "Invalid name in module"}
EnumKinds   == {"Enum values are empty", "Invalid enum value", "Duplicated enum value"}
OwnerKinds  == {"owned by platform cannot have vendor. or odm. namespace",
                "owned by vendor should have vendor. namespace",
                "owned by odm should have odm. namespace"}
AccessKinds == {"is ReadWrite and also have prefix ro."}
BoolKinds   == {"has integer_as_bool: true, but not a boolean"}
PropKinds   == {"Invalid API name", "Invalid prop name"}
               \cup EnumKinds \cup OwnerKinds \cup AccessKinds \cup BoolKinds

Returned == pc = "returned"

(* ValidateProp has returned success for property j *)
PassedProp(j) ==
    \/ pc = "validate" /\ j < i
    \/ pc = "unique"
    \/ Returned /\ result.kind \in {"OK", "Duplicated API name"}

(* ValidateProps has returned ValidateProp's error for property j, of one of kinds *)
RejectedProp(j, kinds) == Returned /\ i = j /\ result.kind \in kinds

IsEnumType(p) == p.type \in {"Enum", "EnumList"}

----------------------------------------------------------------------------
(* C5: the ownership check. With n the effective name, a property that     *)
(* reaches the ownership check passes it iff: owner Platform and n matches *)
(* neither the vendor nor the odm pattern; owner Vendor and n matches the  *)
(* vendor pattern; owner Odm and n matches the odm pattern. The pattern of *)
(* a namespace ns is (init.svc.|ro.|persist.)?ns. then one character or    *)
(* more, or ro.hardware. then one character or more, on the whole name.    *)

C5_Pat(n, ns) ==
    \/ \E pre \in {"", "init.svc.", "ro.", "persist."} :
          /\ Len(n) > Len(pre \o ns \o ".")
          /\ SubSeq(n, 1, Len(pre \o ns \o ".")) = pre \o ns \o "."
    \/ Len(n) > Len("ro.hardware.") /\ SubSeq(n, 1, Len("ro.hardware.")) = "ro.hardware."

C5_Allowed(owner, n) ==
    CASE owner = "Platform" -> ~C5_Pat(n, "vendor") /\ ~C5_Pat(n, "odm")
      [] owner = "Vendor"   -> C5_Pat(n, "vendor")
      [] owner = "Odm"      -> C5_Pat(n, "odm")

C5_Examples ==
    (<<"Platform", "vendor.foo">> :> FALSE) @@ (<<"Vendor", "vendor.foo">> :> TRUE)
    @@ (<<"Vendor", "foo">> :> FALSE) @@ (<<"Platform", "ro.hardware.x">> :> FALSE)
    @@ (<<"Vendor", "ro.hardware.x">> :> TRUE) @@ (<<"Odm", "ro.hardware.x">> :> TRUE)

C5_OwnershipCheck ==
    \A j \in 1..prop_size :
        LET n      == EffectiveName(props, props.prop[j])
            passes == PassedProp(j) \/ RejectedProp(j, AccessKinds \cup BoolKinds)
            fails  == RejectedProp(j, OwnerKinds)
        IN  /\ passes => C5_Allowed(props.owner, n)
            /\ fails => ~C5_Allowed(props.owner, n)
            /\ (passes \/ fails) /\ <<props.owner, n>> \in DOMAIN C5_Examples
                  => (passes <=> C5_Examples[<<props.owner, n>>])

C5_Witness ==
    /\ Returned
    /\ props.owner = "Platform"
    /\ result = Errorf("owned by platform cannot have vendor. or odm. namespace",
                       "ro.hardware.x")

----------------------------------------------------------------------------
(* C6: when the module is valid and every property passes ValidateProp,    *)
(* two properties whose sanitized api_names are equal make ValidateProps   *)
(* return the duplicate-API-name error, also when the raw names differ;    *)
(* and ValidateProps succeeds only if the sanitized names are pairwise     *)
(* distinct.                                                               *)

C6_Sanitized(name) ==
    LET sub == [k \in 1..Len(name) |->
                   IF CharAt(name, k) = "-" \/ CharAt(name, k) = "." THEN "_"
                   ELSE CharAt(name, k)]
        Join[k \in 0..Len(name)] == IF k = 0 THEN "" ELSE Join[k - 1] \o sub[k]
    IN  (IF name # "" /\ CharAt(name, 1) \in {"0", "1", "2", "3", "4", "5", "6", "7", "8", "9"}
         THEN "_" ELSE "") \o Join[Len(name)]

C6_Collision ==
    \E j, k \in 1..prop_size :
        j # k /\ C6_Sanitized(props.prop[j].api_name) = C6_Sanitized(props.prop[k].api_name)

C6_DuplicateApiName ==
    Returned =>
        /\ ( /\ result.kind \notin ModuleKinds
             /\ \A j \in 1..prop_size : ValidateProp(props, props.prop[j]) = Ok
             /\ C6_Collision )
           => result.kind = "Duplicated API name"
        /\ result = Ok => ~C6_Collision
        /\ C6_Sanitized("test-x") = "test_x" /\ C6_Sanitized("test.x") = "test_x"
        /\ C6_Sanitized("1a") = "_1a"

C6_Witness ==
    /\ Returned
    /\ result = Errorf("Duplicated API name", "_1a")
    /\ props.prop[1].api_name = "1a"

----------------------------------------------------------------------------
(* C7: a property that reaches the access check is rejected by it exactly  *)
(* when its access is ReadWrite and its effective name starts with "ro.";  *)
(* a property that is not ReadWrite is never rejected by the access check. *)

C7_AccessCheck ==
    \A j \in 1..prop_size :
        LET p       == props.prop[j]
            n       == EffectiveName(props, p)
            reached == PassedProp(j) \/ RejectedProp(j, AccessKinds \cup BoolKinds)
        IN  /\ reached =>
                (RejectedProp(j, AccessKinds)
                    <=> (p.access = "ReadWrite" /\ Len(n) >= 3 /\ SubSeq(n, 1, 3) = "ro."))
            /\ RejectedProp(j, AccessKinds) => p.access = "ReadWrite"

C7_Witness ==
    /\ Returned
    /\ result = Errorf("is ReadWrite and also have prefix ro.", "ro.foo")
    /\ props.prop[i].access = "ReadWrite"

C7_WitnessReadonly ==
    /\ Returned /\ result = Ok
    /\ \E j \in 1..prop_size :
          /\ props.prop[j].access # "ReadWrite"
          /\ ~StartsWith(EffectiveName(props, props.prop[j]), "ro.")

----------------------------------------------------------------------------
(* C8: for an Enum or EnumList property whose ValidateProp has run: if two *)
(* tokens of the '|'-split enum_values are equal ignoring case, the        *)
(* property is rejected; if it passes the enum check, every token is a     *)
(* valid identifier and the tokens are pairwise distinct ignoring case; an *)
(* empty enum_values is rejected.                                          *)

C8_EqualIgnoringCase(a, b) ==
    /\ Len(a) = Len(b)
    /\ \A k \in 1..Len(a) :
          \/ CharAt(a, k) = CharAt(b, k)
          \/ \E m \in 1..Len(Lower) :
                {CharAt(a, k), CharAt(b, k)} = {CharAt(Lower, m), CharAt(Upper, m)}

C8_EnumValues ==
    \A j \in 1..prop_size :
        LET p        == props.prop[j]
            tokens   == Split(p.enum_values, "|")
            dup      == \E a, b \in 1..Len(tokens) :
                            a # b /\ C8_EqualIgnoringCase(tokens[a], tokens[b])
            ran      == PassedProp(j) \/ RejectedProp(j, PropKinds)
            rejected == RejectedProp(j, PropKinds)
            passes   == PassedProp(j) \/ RejectedProp(j, PropKinds \ (EnumKinds \cup {"Invalid API name"}))
        IN  IsEnumType(p) =>
              /\ ran /\ dup => rejected
              /\ passes => /\ \A a \in 1..Len(tokens) : IsCorrectIdentifier(tokens[a])
                           /\ ~dup
              /\ ran /\ p.enum_values = "" => rejected /\ ~passes

C8_Witness ==
    /\ Returned
    /\ result = Errorf("Duplicated enum value", "A")
    /\ props.prop[i].enum_values = "a|A"

----------------------------------------------------------------------------
(* C10: ValidateProps returns the first violated rule in the order: module *)
(* has fewer than 2 segments; a module segment is no identifier; no        *)
(* property; for each property in order: api_name, enum values, effective  *)
(* name, ownership, access prefix, integer_as_bool; then the uniqueness of *)
(* the sanitized names. An error about property j means properties before  *)
(* j passed, and the duplicate error means every property passed.          *)

C10_Segments == Split(props.module, ".")

C10_ModuleOk ==
    Len(C10_Segments) >= 2 /\ \A k \in 1..Len(C10_Segments) : IsCorrectIdentifier(C10_Segments[k])

(* the six per-property checks in the claimed order, each TRUE when it passes *)
C10_Checks(p) ==
    LET n == EffectiveName(props, p)
    IN  << IsCorrectPropertyOrApiName(p.api_name),
           IsEnumType(p) => EnumCheck(p) = Ok,
           IsCorrectPropertyOrApiName(n),
           OwnerCheck(props.owner, n) = Ok,
           AccessCheck(p.access, n) = Ok,
           IntegerAsBoolCheck(p, n) = Ok >>

C10_KindsOfCheck ==
    << {"Invalid API name"}, EnumKinds, {"Invalid prop name"}, OwnerKinds, AccessKinds, BoolKinds >>

C10_AllPass(p) == \A k \in 1..6 : C10_Checks(p)[k]

C10_FirstViolatedRule ==
    Returned =>
      /\ result.kind = "Invalid module name" <=> Len(C10_Segments) < 2
      /\ result.kind = "Invalid name in module" <=>
            (Len(C10_Segments) >= 2 /\ ~C10_ModuleOk)
      /\ result.kind = "There is no defined property" <=> (C10_ModuleOk /\ prop_size = 0)
      /\ result.kind \in PropKinds <=>
            (C10_ModuleOk /\ \E j \in 1..prop_size : ~C10_AllPass(props.prop[j]))
      /\ result.kind \in PropKinds =>
            /\ i \in 1..prop_size
            /\ \A j \in 1..(i - 1) : C10_AllPass(props.prop[j])
            /\ \E k \in 1..6 :
                  /\ ~C10_Checks(props.prop[i])[k]
                  /\ \A m \in 1..(k - 1) : C10_Checks(props.prop[i])[m]
                  /\ result.kind \in C10_KindsOfCheck[k]
      /\ result.kind = "Duplicated API name" =>
            /\ C10_ModuleOk /\ prop_size > 0
            /\ \A j \in 1..prop_size : C10_AllPass(props.prop[j])
      /\ result.kind \in ModuleKinds \cup PropKinds
            \cup {"There is no defined property", "Duplicated API name", "OK"}

C10_Witness ==
    /\ Returned
    /\ i = 2
    /\ result.kind \in OwnerKinds
    /\ AccessCheck(props.prop[2].access, EffectiveName(props, props.prop[2])) # Ok

----------------------------------------------------------------------------
(* The generated accessors: values                                         *)
(*                                                                         *)
(* bool is a BOOLEAN, std::int32_t and std::int64_t are integers, an enum  *)
(* class value is its ordinal, a std::string is a string, a std::vector is *)
(* a sequence. A double is [halves |-> h], the number h/2: the doubles of  *)
(* the model are the multiples of 1/2, which "%.17g" prints exactly.       *)

None    == [has |-> FALSE]
Some(v) == [has |-> TRUE, val |-> v]

Dbl(h) == [halves |-> h]

EINVAL == 22
ERANGE == 34

INT32_MIN == -2147483647 - 1

CharsOf(str) == {CharAt(str, k) : k \in 1..Len(str)}

Space == {" ", "\t", "\n", "\r"}

(* the number of characters of s, from position k on, that are in set *)
RECURSIVE Run(_, _, _)
Run(s, k, set) ==
    IF k <= Len(s) /\ CharAt(s, k) \in set THEN 1 + Run(s, k + 1, set) ELSE 0

HexDigit == "0123456789abcdef"
tolower(ch) == IF IndexIn(ch, Upper) # 0 THEN CharAt(Lower, IndexIn(ch, Upper)) ELSE ch
DigitValue(ch) == IndexIn(tolower(ch), HexDigit) - 1

(* Each of strtoll, ParseInt and strtod is written as a chain of steps,    *)
(* one operator per step, each passing what it has scanned to the next.    *)

SignLen(s, p) == IF p + 1 <= Len(s) /\ CharAt(s, p + 1) \in {"+", "-"} THEN 1 ELSE 0
IsMinus(s, p) == p + 1 <= Len(s) /\ CharAt(s, p + 1) = "-"

(* strtoll(s, &end, base): white space, an optional sign, an optional 0x   *)
(* for base 16, then digits of the base. The value is kept as its negation *)
(* nv, so that -2^31 is representable; big is set when the magnitude       *)
(* exceeds 2^31. end is the number of characters consumed, 0 when there is *)
(* no digit.                                                               *)
RECURSIVE AccumulateNeg(_, _, _, _, _)
AccumulateNeg(s, k, n, base, acc) ==
    IF n = 0 THEN acc
    ELSE IF acc.big \/ acc.nv < ((INT32_MIN + DigitValue(CharAt(s, k))) \div base)
                 + (IF (INT32_MIN + DigitValue(CharAt(s, k))) % base = 0 THEN 0 ELSE 1)
    THEN AccumulateNeg(s, k + 1, n - 1, base, [big |-> TRUE, nv |-> 0])
    ELSE AccumulateNeg(s, k + 1, n - 1, base,
                       [big |-> FALSE, nv |-> acc.nv * base - DigitValue(CharAt(s, k))])

DigitsOfBase(base) == {ch \in CharsOf(HexDigit \o Upper) : DigitValue(ch) \in 0..(base - 1)}

HexPrefixLen(s, base, p) ==
    IF base = 16 /\ p + 3 <= Len(s) /\ CharAt(s, p + 1) = "0"
       /\ CharAt(s, p + 2) \in {"x", "X"} /\ DigitValue(CharAt(s, p + 3)) \in 0..15
    THEN 2 ELSE 0

StrtollValue(s, base, neg, p1, n) ==
    [end |-> IF n = 0 THEN 0 ELSE p1 + n, neg |-> neg,
     acc |-> AccumulateNeg(s, p1 + 1, n, base, [big |-> FALSE, nv |-> 0])]

StrtollDigits(s, base, neg, p1) ==
    StrtollValue(s, base, neg, p1, Run(s, p1 + 1, DigitsOfBase(base)))

StrtollSign(s, base, ws) ==
    StrtollDigits(s, base, IsMinus(s, ws),
                  ws + SignLen(s, ws) + HexPrefixLen(s, base, ws + SignLen(s, ws)))

strtoll(s, base) == StrtollSign(s, base, Run(s, 1, Space))

(* android::base::ParseInt(s, &out, min, max): the base is 16 after "0x",  *)
(* the whole string must be consumed and the value must be in the range;   *)
(* errno is cleared first and set on failure. wide is TRUE for int64_t,    *)
(* whose range no value with a magnitude up to 2^31 leaves.                *)
ParseIntBase(s, ws) ==
    IF ws + 2 <= Len(s) /\ CharAt(s, ws + 1) = "0" /\ CharAt(s, ws + 2) \in {"x", "X"}
    THEN 16 ELSE 10

ParseIntCheck(s, wide, r) ==
    IF r.end = 0 \/ r.end # Len(s) THEN [ok |-> FALSE, val |-> 0, errno |-> EINVAL]
    ELSE IF ~wide /\ (r.acc.big \/ (~r.neg /\ r.acc.nv = INT32_MIN))
    THEN [ok |-> FALSE, val |-> 0, errno |-> ERANGE]
    ELSE CASE ~r.acc.big ->
              [ok |-> TRUE, val |-> IF r.neg THEN r.acc.nv ELSE -r.acc.nv, errno |-> 0]

ParseInt(s, wide) == ParseIntCheck(s, wide, strtoll(s, ParseIntBase(s, Run(s, 1, Space))))

(* strtod(s, &end) on decimal input: white space, an optional sign, digits *)
(* with an optional point, an optional exponent. end is the number of      *)
(* characters consumed (0: no conversion); erange is set when the result   *)
(* overflows or underflows, and only then does strtod write errno.         *)
RECURSIVE DigitsValue(_, _, _)
DigitsValue(s, k, n) ==
    IF n = 0 THEN 0 ELSE DigitsValue(s, k, n - 1) * 10 + DigitValue(CharAt(s, k + n - 1))

RECURSIVE Pow10(_)
Pow10(e) == IF e = 0 THEN 1 ELSE 10 * Pow10(e - 1)

DecDigits == CharsOf(Digit)

(* the value: sc is what was scanned: neg, ni and nf (the numbers of       *)
(* integer and fraction digits), ipart (the integer digits' value), lead   *)
(* and fzero (the leading zeros of the integer and fraction digits), five  *)
(* (the fraction is 5 then zeros), exp and end. mag is the decimal         *)
(* exponent of the first significant digit.                                *)
StrtodRound(sc, mag) ==
    IF sc.end = 0 THEN [end |-> 0, erange |-> FALSE, val |-> Dbl(0)]
    ELSE IF sc.ipart = 0 /\ sc.fzero = sc.nf
    THEN [end |-> sc.end, erange |-> FALSE, val |-> Dbl(0)]
    ELSE IF mag > 308 THEN [end |-> sc.end, erange |-> TRUE, val |-> "HUGE_VAL"]
    ELSE IF mag < -324 THEN [end |-> sc.end, erange |-> TRUE, val |-> Dbl(0)]
    ELSE CASE sc.exp >= 0 /\ (sc.ni - sc.lead) + sc.exp <= 8
              /\ (sc.fzero = sc.nf \/ sc.five) ->
              [end |-> sc.end, erange |-> FALSE,
               val |-> Dbl((IF sc.neg THEN -1 ELSE 1)
                           * (2 * sc.ipart + (IF sc.five THEN 1 ELSE 0)) * Pow10(sc.exp))]

StrtodValue(sc) ==
    StrtodRound(sc, IF sc.ipart # 0 THEN (sc.ni - sc.lead) - 1 + sc.exp
                    ELSE sc.exp - sc.fzero - 1)

StrtodScanned(s, neg, p0, ni, nf, end, exp) ==
    StrtodValue([neg |-> neg, ni |-> ni, nf |-> nf, end |-> end, exp |-> exp,
                 ipart |-> DigitsValue(s, p0 + 1, ni),
                 lead  |-> Run(s, p0 + 1, {"0"}),
                 fzero |-> IF nf = 0 THEN 0 ELSE Run(s, p0 + ni + 2, {"0"}),
                 five  |-> nf > 0 /\ CharAt(s, p0 + ni + 2) = "5"
                           /\ Run(s, p0 + ni + 3, {"0"}) = nf - 1])

(* the exponent: pe is the position before its digits, ne their number;   *)
(* without a digit the exponent is not part of the number                  *)
StrtodExpDigits(s, neg, p0, ni, nf, p1, eneg, pe, ne) ==
    StrtodScanned(s, neg, p0, ni, nf,
                  IF ni + nf = 0 THEN 0 ELSE IF ne = 0 THEN p1 ELSE pe + ne,
                  IF ne = 0 THEN 0
                  ELSE (IF eneg THEN -1 ELSE 1) * DigitsValue(s, pe + 1, ne))

StrtodExpSign(s, neg, p0, ni, nf, p1, hasE, pe) ==
    StrtodExpDigits(s, neg, p0, ni, nf, p1, hasE /\ IsMinus(s, p1 + 1), pe,
                    IF hasE THEN Run(s, pe + 1, DecDigits) ELSE 0)

StrtodExp(s, neg, p0, ni, nf, p1) ==
    StrtodExpSign(s, neg, p0, ni, nf, p1,
                  p1 + 1 <= Len(s) /\ CharAt(s, p1 + 1) \in {"e", "E"},
                  p1 + 1 + SignLen(s, p1 + 1))

StrtodFraction(s, neg, p0, ni, point, nf) ==
    StrtodExp(s, neg, p0, ni, nf, p0 + ni + (IF point THEN 1 + nf ELSE 0))

StrtodPoint(s, neg, p0, ni, point) ==
    StrtodFraction(s, neg, p0, ni, point,
                   IF point THEN Run(s, p0 + ni + 2, DecDigits) ELSE 0)

StrtodInteger(s, neg, p0, ni) ==
    StrtodPoint(s, neg, p0, ni, p0 + ni + 1 <= Len(s) /\ CharAt(s, p0 + ni + 1) = ".")

StrtodSign(s, ws) ==
    StrtodInteger(s, IsMinus(s, ws), ws + SignLen(s, ws),
                  Run(s, ws + SignLen(s, ws) + 1, DecDigits))

strtod(s) == StrtodSign(s, Run(s, 1, Space))

----------------------------------------------------------------------------
(* The generated accessors: DoParse<T>, DoParseList, TryParse              *)
(*                                                                         *)
(* A parse function returns [ret |-> optional value, errno |-> the errno   *)
(* it leaves], given the errno it is entered with.                         *)

strcasecmp(a, b) == IF ToUpper(a) = ToUpper(b) THEN 0 ELSE 1

kYes == <<"1", "true">>
kNo  == <<"0", "false">>

DoParseBool(str, errno_in) ==
    IF \E k \in 1..Len(kYes) : strcasecmp(kYes[k], str) = 0
    THEN [ret |-> Some(TRUE), errno |-> errno_in]
    ELSE IF \E k \in 1..Len(kNo) : strcasecmp(kNo[k], str) = 0
    THEN [ret |-> Some(FALSE), errno |-> errno_in]
    ELSE [ret |-> None, errno |-> errno_in]

ParseIntResult(r) == [ret |-> IF r.ok THEN Some(r.val) ELSE None, errno |-> r.errno]

DoParseInt32(str, errno_in) == ParseIntResult(ParseInt(str, FALSE))

DoParseInt64(str, errno_in) == ParseIntResult(ParseInt(str, TRUE))

(* lines 281-289, with errno1 the errno after strtod and r its result *)
DoParseDoubleCheck(str, old_errno, errno1, r) ==
    IF errno1 # 0 THEN [ret |-> None, errno |-> errno1]
    ELSE IF r.end = 0 \/ r.end # Len(str) THEN [ret |-> None, errno |-> old_errno]
    ELSE [ret |-> Some(r.val), errno |-> old_errno]

(* lines 277-280: errno is saved and cleared, strtod sets it on a range error *)
DoParseDoubleCall(str, old_errno, r) ==
    DoParseDoubleCheck(str, old_errno, IF r.erange THEN ERANGE ELSE 0, r)

DoParseDouble(str, errno_in) == DoParseDoubleCall(str, errno_in, strtod(str))

DoParseString(str, errno_in) == [ret |-> Some(str), errno |-> errno_in]

(* the first entry of the property's name table that strcmp finds equal *)
DoParseEnum(enum_list, str, errno_in) ==
    IF \E k \in 1..Len(enum_list) : enum_list[k] = str
    THEN [ret |-> Some((CHOOSE k \in 1..Len(enum_list) :
                           /\ enum_list[k] = str
                           /\ \A m \in 1..(k - 1) : enum_list[m] # str) - 1),
          errno |-> errno_in]
    ELSE [ret |-> None, errno |-> errno_in]

(* a C++ type T of an accessor: its scalar kind, whether it is a vector,   *)
(* and the name table of an enum class                                     *)
Type(kind, list, enum_list) == [kind |-> kind, list |-> list, enum_list |-> enum_list]

DoParse(T, str, errno_in) ==
    CASE T.kind = "bool"   -> DoParseBool(str, errno_in)
      [] T.kind = "int32"  -> DoParseInt32(str, errno_in)
      [] T.kind = "int64"  -> DoParseInt64(str, errno_in)
      [] T.kind = "double" -> DoParseDouble(str, errno_in)
      [] T.kind = "string" -> DoParseString(str, errno_in)
      [] T.kind = "enum"   -> DoParseEnum(T.enum_list, str, errno_in)

(* mutant: a rejected token is skipped instead of failing the list *)
DoParseListStep_SkipRejected(ret, element) ==
    [done |-> FALSE, ret |-> IF element.ret.has THEN Append(ret, element.ret.val) ELSE ret,
     errno |-> element.errno]

(* lines 299-303: the body of the loop, for the parsed element *)
DoParseListStep(ret, element) ==
    IF ~element.ret.has THEN [done |-> TRUE, ret |-> <<>>, errno |-> element.errno]
    ELSE [done |-> FALSE, ret |-> Append(ret, element.ret.val), errno |-> element.errno]

RECURSIVE DoParseListLoop(_, _, _, _)
DoParseListLoop(T, elements, k, st) ==
    IF st.done THEN [ret |-> None, errno |-> st.errno]
    ELSE IF k > Len(elements) THEN [ret |-> Some(st.ret), errno |-> st.errno]
    ELSE DoParseListLoop(T, elements, k + 1,
                         DoParseListStep(st.ret, DoParse(T, elements[k], st.errno)))

DoParseList(T, str, errno_in) ==
    DoParseListLoop(T, Split(str, ","), 1, [done |-> FALSE, ret |-> <<>>, errno |-> errno_in])

TryParse(T, str, errno_in) ==
    IF T.list THEN DoParseList(T, str, errno_in) ELSE DoParse(T, str, errno_in)

----------------------------------------------------------------------------
(* The generated accessors: FormatValue *)

Digits10 == <<"0", "1", "2", "3", "4", "5", "6", "7", "8", "9">>

(* the decimal digits of -n, for n <= 0 *)
RECURSIVE NegDigits(_)
NegDigits(n) ==
    IF n = 0 THEN ""
    ELSE LET d == (10 - (n % 10)) % 10
         IN  NegDigits((n + d) \div 10) \o Digits10[d + 1]

to_string(n) ==
    IF n = 0 THEN "0" ELSE IF n < 0 THEN "-" \o NegDigits(n) ELSE NegDigits(-n)

FormatValueInt(value) == to_string(value)

(* "%.17g" of h/2, for magnitudes below 1e17, where %g uses no exponent *)
FormatValueDouble(value) ==
    LET h == value.halves
        a == IF h < 0 THEN -h ELSE h
    IN  (IF h < 0 THEN "-" ELSE "") \o to_string(a \div 2)
        \o (IF a % 2 = 1 THEN ".5" ELSE "")

FormatValueBool(value) == IF value THEN "true" ELSE "false"

(* the CASE has no other arm: a value outside the table is LOG(FATAL) *)
FormatValueEnum(enum_list, value) ==
    CASE value + 1 \in 1..Len(enum_list) -> enum_list[value + 1]

FormatScalar(T, value) ==
    CASE T.kind = "bool"   -> FormatValueBool(value)
      [] T.kind = "int32"  -> FormatValueInt(value)
      [] T.kind = "int64"  -> FormatValueInt(value)
      [] T.kind = "double" -> FormatValueDouble(value)
      [] T.kind = "string" -> value
      [] T.kind = "enum"   -> FormatValueEnum(T.enum_list, value)

(* the loop of FormatValue(const std::vector<T>&): the ',' is pushed when  *)
(* ret is empty                                                            *)
RECURSIVE FormatValueLoop(_, _, _, _)
FormatValueLoop(T, value, k, ret) ==
    IF k > Len(value) THEN ret
    ELSE LET ret1 == IF ret = "" THEN ret \o "," ELSE ret
         IN  FormatValueLoop(T, value, k + 1, ret1 \o FormatScalar(T, value[k]))

FormatValueVector(T, value) ==
    IF Len(value) = 0 THEN "" ELSE FormatValueLoop(T, value, 1, "")

FormatValue(T, value) ==
    IF T.list THEN FormatValueVector(T, value) ELSE FormatScalar(T, value)

----------------------------------------------------------------------------
(* The generated accessors of the generator test's schema, and the store *)

test_enum_list == <<"a", "b", "c", "D", "e", "f", "G">>
el_list        == <<"enu", "mva", "lue">>

Accessor(fn, key, T) == [fn |-> fn, key |-> key, T |-> T]

Accessors ==
    { Accessor("test_double", "android.os.test_double", Type("double", FALSE, <<>>)),
      Accessor("test_int", "android.os.test_int", Type("int32", FALSE, <<>>)),
      Accessor("test_string", "android.os.test.string", Type("string", FALSE, <<>>)),
      Accessor("test_enum", "android.os.test.enum", Type("enum", FALSE, test_enum_list)),
      Accessor("test_BOOLeaN", "android.os.test_BOOLeaN", Type("bool", FALSE, <<>>)),
      Accessor("longlonglongLONGLONGlongLONGlongLONG",
               "android.os.longlonglongLONGLONGlongLONGlongLONG",
               Type("int64", FALSE, <<>>)),
      Accessor("test_double_list", "android.os.test_double_list", Type("double", TRUE, <<>>)),
      Accessor("test_list_int", "android.os.test_list_int", Type("int32", TRUE, <<>>)),
      Accessor("test_strlist", "android.os.test.strlist", Type("string", TRUE, <<>>)),
      Accessor("el", "android.os.el", Type("enum", TRUE, el_list)) }

Keys == {a.key : a \in Accessors}
Fns  == {a.fn : a \in Accessors}

(* GetProp<T>(key): no value when the key is absent, else TryParse<T> of   *)
(* the value read                                                          *)
GetProp(T, key, errno_in) ==
    LET pi == store[key]
    IN  IF ~pi.has THEN [ret |-> None, errno |-> errno_in]
        ELSE TryParse(T, pi.val, errno_in)

(* the getter of an accessor *)
Getter(a) ==
    /\ LET r == GetProp(a.T, a.key, errno)
       IN  /\ call' = [op |-> "get", fn |-> a.fn, ok |-> r.ret.has]
           /\ got' = [f \in Fns |-> IF f = a.fn THEN r.ret ELSE None]
           /\ errno' = r.errno
    /\ UNCHANGED <<store, last_set, nsets, vvars, pvars>>

MaxSets    == 2
MaxListLen == 2

(* the setter of an accessor: __system_property_set of the formatted value *)
(* either succeeds (0) or fails and leaves the store as it is              *)
Setter(a, value, rc) ==
    /\ nsets < MaxSets
    /\ nsets' = nsets + 1
    /\ call' = [op |-> "set", fn |-> a.fn, ok |-> (rc = 0)]
    /\ got' = [f \in Fns |-> None]
    /\ IF rc = 0
       THEN /\ store' = [store EXCEPT ![a.key] = Some(FormatValue(a.T, value))]
            /\ last_set' = [last_set EXCEPT ![a.fn] = Some(value)]
       ELSE UNCHANGED <<store, last_set>>
    /\ UNCHANGED <<errno, vvars, pvars>>

(* the typed values the setters are called with *)
ScalarValues(T) ==
    CASE T.kind = "bool"   -> BOOLEAN
      [] T.kind = "int32"  -> {0, 42, -7}
      [] T.kind = "int64"  -> {0, 42, -7}
      [] T.kind = "double" -> {Dbl(0), Dbl(3), Dbl(-5)}
      [] T.kind = "string" -> {"", "a", "a,b"}
      [] T.kind = "enum"   -> 0..(Len(T.enum_list) - 1)

ElementValues(T) ==
    CASE T.kind = "bool"   -> BOOLEAN
      [] T.kind = "int32"  -> {42, -7}
      [] T.kind = "int64"  -> {42, -7}
      [] T.kind = "double" -> {Dbl(3), Dbl(-4)}
      [] T.kind = "string" -> {"", "a"}
      [] T.kind = "enum"   -> 0..(Len(T.enum_list) - 1)

Values(T) ==
    IF T.list THEN SeqsUpTo(ElementValues(T), MaxListLen) ELSE ScalarValues(T)

Get == \E a \in Accessors : Getter(a)

Set == \E a \in Accessors : \E value \in Values(a.T) : \E rc \in {0, -1} : Setter(a, value, rc)

----------------------------------------------------------------------------
(* One call of TryParse<T>, then FormatValue of what it returned *)

MaxTokens == 3

BoolTokens   == {"1", "true", "TRUE", "True", "0", "false", "FALSE", "fAlSe", "", "yes", "2", "tru"}
IntTokens    == {"42", "-7", "", "0x1f", "+5", "007", "4x", "2147483647", "2147483648",
                 "-2147483648", "-2147483649", " 1", "1 ", "-", "0"}
LongTokens   == {"42", "-7", "", "0x1f", "+5", "007", "4x", "12 ", "0"}
DoubleTokens == {"1.5", "-2.5", "", "1e999", "1e2", "1x", "x", " 1.5", "1e", ".5", "5.",
                 "-", "1e-999", "0.50", "0", "-1e999"}
StringTokens == {"", "a", "TRUE", "a b"}
EnumTokens   == {"enu", "mva", "lue", "ENU", "", "en", "enux", "a", "G", "g"}

Tokens(T) ==
    CASE T.kind = "bool"   -> BoolTokens
      [] T.kind = "int32"  -> IntTokens
      [] T.kind = "int64"  -> LongTokens
      [] T.kind = "double" -> DoubleTokens
      [] T.kind = "string" -> StringTokens
      [] T.kind = "enum"   -> EnumTokens

(* the tokens that raw lists are built of *)
ListTokens(T) ==
    CASE T.kind = "bool"   -> {"1", "TRUE", "false", "", "yes"}
      [] T.kind = "int32"  -> {"42", "-7", "", "007", "4x"}
      [] T.kind = "int64"  -> {"42", "-7", "", "+5", "4x"}
      [] T.kind = "double" -> {"1.5", "-2.5", "", "1e999", "1x"}
      [] T.kind = "string" -> {"", "a", "TRUE"}
      [] T.kind = "enum"   -> {"enu", "lue", "", "ENU", "mva"}

RECURSIVE CommaJoin(_)
CommaJoin(tokens) ==
    IF Len(tokens) = 0 THEN ""
    ELSE IF Len(tokens) = 1 THEN tokens[1]
    ELSE tokens[1] \o "," \o CommaJoin(Tail(tokens))

RawStrings(T) ==
    IF T.list THEN {CommaJoin(q) : q \in SeqsUpTo(ListTokens(T), MaxTokens)}
    ELSE Tokens(T)

ParsedTypes == {a.T : a \in Accessors}

TryParseCall ==
    /\ ppc = "start"
    /\ LET r == TryParse(raw.T, raw.str, errno)
       IN  /\ parsed' = r.ret
           /\ errno' = r.errno
    /\ ppc' = "parsed"
    /\ UNCHANGED <<raw, formatted, store, call, last_set, got, nsets, vvars>>

FormatCall ==
    /\ ppc = "parsed"
    /\ parsed.has
    /\ formatted' = FormatValue(raw.T, parsed.val)
    /\ ppc' = "formatted"
    /\ UNCHANGED <<raw, parsed, gvars, vvars>>

----------------------------------------------------------------------------
(* What the claims about the accessors speak of *)

AccessorOf(fn) == CHOOSE a \in Accessors : a.fn = fn

(* the strings of the elements of a list value, each formatted on its own *)
FormattedElements(T, value) == [k \in 1..Len(value) |-> FormatScalar(T, value[k])]

----------------------------------------------------------------------------
(* C1: after a successful set of a list accessor, the string written is    *)
(* the formatted elements in order with one ',' between consecutive        *)
(* elements, no leading or trailing comma, and "" for the empty list.      *)

C1_ListFormat ==
    (call.op = "set" /\ call.ok /\ AccessorOf(call.fn).T.list) =>
        store[AccessorOf(call.fn).key]
            = Some(CommaJoin(FormattedElements(AccessorOf(call.fn).T,
                                               last_set[call.fn].val)))

----------------------------------------------------------------------------
(* C2: a getter that returns while the value of the last successful set of *)
(* its accessor is still the last write to the key returns that value.     *)

C2_SetGetRoundTrip ==
    (call.op = "get" /\ last_set[call.fn].has) =>
        /\ got[call.fn].has
        /\ got[call.fn].val = last_set[call.fn].val

----------------------------------------------------------------------------
(* C3: when DoParse<double> has returned, errno is what it was at entry.   *)

C3_ErrnoUnchanged ==
    (ppc # "start" /\ raw.T.kind = "double" /\ ~raw.T.list) => errno = raw.errno

----------------------------------------------------------------------------
(* C4: for a raw string s that parses, format(parse(s)) is the canonical   *)
(* encoding c of s: parse(c) = parse(s) and format(parse(c)) = c; for a    *)
(* Boolean c is "true" or "false", for a list c is the canonical tokens    *)
(* joined by commas.                                                       *)

C4_FormatOfParseIsCanonical ==
    ppc = "formatted" =>
        LET c  == formatted
            pc_ == TryParse(raw.T, c, errno).ret
        IN  /\ pc_.has
            /\ pc_.val = parsed.val
            /\ FormatValue(raw.T, pc_.val) = c
            /\ (raw.T.kind = "bool" /\ ~raw.T.list) =>
                  c = (IF ToUpper(raw.str) \in {"1", "TRUE"} THEN "true" ELSE "false")
            /\ raw.T.list => c = CommaJoin(FormattedElements(raw.T, parsed.val))

----------------------------------------------------------------------------
(* C9: the list parse is all or nothing. With the tokens of the raw string *)
(* the pieces between its commas, it returns a value iff the scalar parser *)
(* accepts every token, and the value is then the parsed tokens in order;  *)
(* an empty token of a Boolean, Integer, Long, Double or Enum list makes   *)
(* it return no value.                                                     *)

C9_Commas(s) == {k \in 1..Len(s) : CharAt(s, k) = ","}

(* the position of the j-th comma of s; 0 for j = 0, Len(s) + 1 after the last *)
C9_Comma(s, j) ==
    IF j = 0 THEN 0
    ELSE IF j > Cardinality(C9_Commas(s)) THEN Len(s) + 1
    ELSE CHOOSE p \in C9_Commas(s) : Cardinality({q \in C9_Commas(s) : q < p}) = j - 1

C9_Tokens(s) ==
    [j \in 1..(Cardinality(C9_Commas(s)) + 1) |->
        SubSeq(s, C9_Comma(s, j - 1) + 1, C9_Comma(s, j) - 1)]

C9_ListParseAllOrNothing ==
    (ppc # "start" /\ raw.T.list) =>
        LET tokens == C9_Tokens(raw.str)
            el(k)  == DoParse(raw.T, tokens[k], 0).ret
        IN  /\ parsed.has <=> \A k \in 1..Len(tokens) : el(k).has
            /\ parsed.has =>
                  /\ Len(parsed.val) = Len(tokens)
                  /\ \A k \in 1..Len(tokens) : parsed.val[k] = el(k).val
            /\ (raw.T.kind # "string" /\ \E k \in 1..Len(tokens) : tokens[k] = "")
                  => ~parsed.has

C9_Witness ==
    /\ ppc = "parsed"
    /\ raw.T.kind = "int32" /\ raw.T.list
    /\ raw.str = "42,4x"
    /\ ~parsed.has

----------------------------------------------------------------------------
(* C11: ParseProps changes the message only after ValidateProps returned   *)
(* success on the message as parsed, and then only by replacing a blank    *)
(* prop_name with the default name and scope System with Public; module,   *)
(* owner, the order and number of the properties and their api_name, type, *)
(* access, enum_values and integer_as_bool stay as parsed. When validation *)
(* fails it returns the error, no message, and has changed nothing.        *)

(* property j has been through the loop body *)
C11_Normalized(j) == pc = "done" \/ (pc = "normalize" /\ j < i)

C11_Unchanged(j, fields) == \A f \in fields : props.prop[j][f] = input.prop[j][f]

C11_PropertyFrame(j) ==
    /\ C11_Unchanged(j, {"api_name", "type", "access", "enum_values", "integer_as_bool"})
    /\ IF C11_Normalized(j)
       THEN /\ props.prop[j].prop_name =
                  (IF input.prop[j].prop_name = ""
                   THEN GenerateDefaultPropName(input, input.prop[j])
                   ELSE input.prop[j].prop_name)
            /\ props.prop[j].scope =
                  (IF input.prop[j].scope = "System" THEN "Public"
                   ELSE input.prop[j].scope)
       ELSE props.prop[j] = input.prop[j]

C11_ParsePropsNormalization ==
    /\ pc \notin {"normalize", "done"} => props = input
    /\ pc \in {"normalize", "done"} =>
          /\ result = Ok
          /\ props.module = input.module
          /\ props.owner = input.owner
          /\ Len(props.prop) = Len(input.prop)
          /\ \A j \in 1..Len(input.prop) : C11_PropertyFrame(j)
    /\ pc = "done" => output = [state |-> "value", error |-> Ok, value |-> props]
    /\ pc = "failed" =>
          /\ result # Ok
          /\ output = [state |-> "error", error |-> result, value |-> NoSchema]
    /\ pc \notin {"done", "failed"} => output = NoOutput

(* a message returned with a defaulted name, a kept name and a rewritten scope *)
C11_Witness ==
    /\ pc = "done"
    /\ \E j, k \in 1..Len(input.prop) :
          /\ input.prop[j].prop_name = ""
          /\ props.prop[j].prop_name # ""
          /\ input.prop[j].scope = "System"
          /\ input.prop[k].prop_name # ""

----------------------------------------------------------------------------
(* C12: under owner Vendor or Odm, the default name of a property with a   *)
(* blank prop_name and a well-formed api_name passes the character rule,   *)
(* the ownership check and the access check of ValidateProp, whatever the  *)
(* access mode; so ValidateProps rejects a property with a blank prop_name *)
(* only for its api_name, its enum values or integer_as_bool. Under owner  *)
(* Platform a well-formed api_name can give a default name that fails.     *)

C12_Blank(j) == props.owner \in {"Vendor", "Odm"} /\ props.prop[j].prop_name = ""

C12_DefaultPasses(owner, prop) ==
    LET n == GenerateDefaultPropName([owner |-> owner], prop)
    IN  /\ IsCorrectPropertyOrApiName(n)
        /\ OwnerCheck(owner, n) = Ok
        /\ AccessCheck(prop.access, n) = Ok

C12_PlatformFails ==
    \E api \in ApiNames, access \in Accesses :
        /\ IsCorrectPropertyOrApiName(api)
        /\ ~C12_DefaultPasses("Platform", [api_name |-> api, access |-> access])

C12_DefaultNamesConsistent ==
    /\ \A j \in 1..Len(props.prop) :
          C12_Blank(j) =>
             /\ IsCorrectPropertyOrApiName(props.prop[j].api_name)
                   => C12_DefaultPasses(props.owner, props.prop[j])
             /\ RejectedProp(j, PropKinds)
                   => result.kind \in {"Invalid API name"} \cup EnumKinds \cup BoolKinds
    /\ C12_PlatformFails

(* an Odm property with a blank prop_name and a read-only access got past  *)
(* the name, ownership and access checks: it is rejected by the last check *)
C12_Witness ==
    \E j \in 1..Len(props.prop) :
        /\ C12_Blank(j)
        /\ props.owner = "Odm"
        /\ props.prop[j].access # "ReadWrite"
        /\ RejectedProp(j, BoolKinds)

----------------------------------------------------------------------------
(* Specifications *)

NoCall == [op |-> "none", fn |-> "", ok |-> FALSE]

IdleValidate ==
    /\ props = NoSchema
    /\ pc = "idle"
    /\ i = 0
    /\ prop_names = {}
    /\ result = NoResult
    /\ input = NoSchema
    /\ output = NoOutput

IdleAccessors ==
    /\ store = [k \in Keys |-> None]
    /\ call = NoCall
    /\ last_set = [f \in Fns |-> None]
    /\ got = [f \in Fns |-> None]
    /\ nsets = 0

IdleParse ==
    /\ raw = [T |-> Type("string", FALSE, <<>>), str |-> "", errno |-> 0]
    /\ parsed = None
    /\ formatted = ""
    /\ ppc = "idle"

(* a process that calls the generated getters and setters *)
Init ==
    /\ IdleAccessors
    /\ errno = 0
    /\ IdleValidate
    /\ IdleParse

Next == Get \/ Set

Spec == Init /\ [][Next]_vars

(* the schema tool validating one schema *)
InitValidate ==
    /\ props \in Schemas
    /\ pc = "module_size"
    /\ i = 0
    /\ prop_names = {}
    /\ result = NoResult
    /\ input = props
    /\ output = NoOutput
    /\ IdleAccessors
    /\ errno = 0
    /\ IdleParse

NextValidate ==
    \/ CheckModuleSize
    \/ CheckModuleNames
    \/ CheckPropSize
    \/ ValidateLoop
    \/ UniqueLoop

SpecValidate == InitValidate /\ [][NextValidate]_vars

(* the schema tool loading one schema: ValidateProps, then the defaults *)
InitParseProps == InitValidate

NextParseProps ==
    \/ NextValidate
    \/ CheckValidateProps
    \/ NormalizeLoop

SpecParseProps == InitParseProps /\ [][NextParseProps]_vars

(* the parse and format functions applied to one raw string *)
InitParse ==
    /\ \E T \in ParsedTypes : \E str \in RawStrings(T) : \E e \in {0, EINVAL, ERANGE} :
          /\ raw = [T |-> T, str |-> str, errno |-> e]
          /\ errno = e
    /\ parsed = None
    /\ formatted = ""
    /\ ppc = "start"
    /\ IdleAccessors
    /\ IdleValidate

NextParse == TryParseCall \/ FormatCall

SpecParse == InitParse /\ [][NextParse]_vars

====
